---- MODULE Spec2Model ----
(***************************************************************************)
(* Dailycoin (fcecin/dailycoin): an EOSIO token contract with a daily      *)
(* basic income (UBI), a demurrage tax and income shares.                  *)
(*                                                                         *)
(* The model follows src/dailycoin.cpp and src/dailycoin.hpp.  Tables are  *)
(* functions whose DOMAIN is the set of stored primary keys.  An action    *)
(* handler is an operator from a working state                             *)
(*     [accts, stats, shares, profiles, events, settles, err]              *)
(* to a working state; eosio::check aborts the transaction, which the      *)
(* model renders by the err field and by Outcome discarding the writes of  *)
(* an aborted handler.  Amounts are raw asset amounts (1 XDL = 10000).     *)
(***************************************************************************)
EXTENDS Integers, Sequences, FiniteSets

\* ------------------------------------------------------------------ bounds

StartDay == 100
DaySpan == 1
MaxOps == 5
\* The last day number rendered as a date: 1 March 2100.
CalLast == 47541

\* ------------------------------------------------- constants of the program

PRECISION_MULTIPLIER == 10000
max_past_claim_days == 360

COIN_SYMBOL == "XDL"

\* ------------------------------------------------------- inputs (small sets)

Accounts == 1..3
Issuers == {1}
MaxDay == StartDay + DaySpan
MaxSupplies == {10000, 25000}
Quantities == {10000}
Percents == {0, 40, 60, 101}
Sharers == {1}
Profilers == {1}
\* The days on which blocks are produced when the chain is left alone for
\* long: gaps of 1 and 5 days, of 360 and 365 days, and of more than a year.
LeapDays == <<50, 55, 415, 500, 501>>
\* A max_supply that a year of income of every account does not reach, and
\* one that two days of income reach.
AmpleSupplies == {25000, 12000000}
\* A profile string is rendered by its size in bytes.
Profiles == {0, 7, 1025}
\* The days of the blocks that follow a first claim on day 50: up to 361
\* days later, and 365 days later.
PathDays == <<50, 51, 55, 411, 415>>
Claimants == {1}

VARIABLES accts, stats, shares, profiles, today, events, settles, last, nops, mints

vars == <<accts, stats, shares, profiles, today, events, settles, last, nops, mints>>

\* ----------------------------------------------------------- table helpers

\* multi_index::emplace / modify: store row v under primary key k
Put(tbl, k, v) ==
    [x \in (DOMAIN tbl) \cup {k} |-> IF x = k THEN v ELSE tbl[x]]

\* multi_index::erase
Erase(tbl, k) ==
    [x \in (DOMAIN tbl) \ {k} |-> tbl[x]]

EmptyTable == [x \in {} |-> 0]

RECURSIVE SumOver(_, _)
SumOver(f, S) ==
    IF S = {} THEN 0
    ELSE LET k == CHOOSE x \in S : TRUE
         IN f[k] + SumOver(f, S \ {k})

RECURSIVE SeqSum(_)
SeqSum(q) ==
    IF q = <<>> THEN 0 ELSE Head(q).amount + SeqSum(Tail(q))

RECURSIVE Descending(_)
Descending(S) ==
    IF S = {} THEN <<>>
    ELSE LET m == CHOOSE x \in S : \A y \in S : x >= y
         IN <<m>> \o Descending(S \ {m})

\* The primary keys of a table in ascending order: the iteration order of
\* multi_index from begin() to end().
RECURSIVE Ascending(_)
Ascending(S) ==
    IF S = {} THEN <<>>
    ELSE LET m == CHOOSE x \in S : \A y \in S : x <= y
         IN <<m>> \o Ascending(S \ {m})

\* ------------------------------------------------- eosio::check and abort

\* A handler's working state at its start.
Begin ==
    [accts |-> accts, stats |-> stats, shares |-> shares, profiles |-> profiles,
     events |-> <<>>, settles |-> <<>>, err |-> ""]

\* eosio::check( cond, msg ): the first failed check aborts; nothing after
\* it runs.
Check(s, cond, msg) ==
    IF s.err # "" \/ cond THEN s ELSE [s EXCEPT !.err = msg]

\* What a transaction leaves behind: its writes when it completes, the state
\* it started from when a check failed (the host discards the writes).
OutcomeLeaky(s) ==
    s

Outcome(s) ==
    IF s.err = "" THEN s
    ELSE [s EXCEPT !.accts = accts, !.stats = stats, !.shares = shares,
                   !.profiles = profiles, !.events = <<>>]

\* ------------------------------------------------------ demurrage arithmetic

\* The scale of the fixed-point rendering of the double pw: parts per 10^9.
PPB == 1000000000

\* 10^9 * (1 - 0.999^(ni_days/365)), rounded: the series of
\* 1 - exp(-x), x = ni_days * (-ln 0.999)/365 = ni_days * 2.741097e-6,
\* summed in thousandths of a part.  Within one part of the double for
\* ni_days <= 700.
pw_complement(ni_days) ==
    LET T1 == ni_days * 2741097
        T2 == (ni_days * ni_days * 3757) \div 1000
        T3 == (((ni_days * ni_days * ni_days) \div 1000) * 3433) \div 1000000
    IN (T1 - T2 + T3 + 500) \div 1000

\* double pw = pow(0.999, ((double)ni_days) / 365.0), in parts per 10^9
pw(ni_days) ==
    PPB - pw_complement(ni_days)

\* (int64_t)(p * amount / 10^9) for 0 <= p < 10^9, 0 <= amount < 10^9: the
\* product is formed in base-1000 digits so that no intermediate value
\* leaves the 32-bit integers of TLC.
TruncMul(p, amount) ==
    LET p0 == p % 1000
        p1 == (p \div 1000) % 1000
        p2 == p \div 1000000
        b0 == amount % 1000
        b1 == (amount \div 1000) % 1000
        b2 == amount \div 1000000
        c0 == p0 * b0
        c1 == p0 * b1 + p1 * b0 + (c0 \div 1000)
        c2 == p0 * b2 + p1 * b1 + p2 * b0 + (c1 \div 1000)
        c3 == p1 * b2 + p2 * b1 + (c2 \div 1000)
    IN c3 + (p2 * b2) * 1000

\* int64_t burn_amt = balance.amount - ((int64_t)(pw * balance.amount))
burn_amt_one_day(amount, ni_days) ==
    amount - TruncMul(pw(1), amount)

burn_amt_of(amount, ni_days) ==
    amount - TruncMul(pw(ni_days), amount)

\* int ni_days = 1; if (curr_lcd > 0) ni_days = today - curr_lcd;
ni_days_unguarded(curr_lcd, day) ==
    day - curr_lcd

ni_days_of(curr_lcd, day) ==
    IF curr_lcd > 0 THEN day - curr_lcd ELSE 1

\* if (curr_lcd == 0) curr_lcd = today - 1;
effective_lcd_stored(curr_lcd, day) ==
    curr_lcd

effective_lcd(curr_lcd, day) ==
    IF curr_lcd = 0 THEN day - 1 ELSE curr_lcd

\* claim_amount = today - curr_lcd - 1, before the cap of max_past_claim_days
pending_days_inclusive(eff_lcd, day) ==
    day - eff_lcd

pending_days(eff_lcd, day) ==
    day - eff_lcd - 1

\* time_type lost_days: the days above max_past_claim_days
lost_days_none(pending) ==
    0

lost_days_of(pending) ==
    IF pending > max_past_claim_days THEN pending - max_past_claim_days ELSE 0

\* claim_amount after the cap and after `claim_amount += 1`
claim_days_single(pending) ==
    1

claim_days_of(pending) ==
    (IF pending > max_past_claim_days THEN max_past_claim_days ELSE pending) + 1

\* if (claim_quantity.amount > available_amount) set_amount(available_amount)
clamp_unclamped(claim_amount, available_amount) ==
    claim_amount

clamp_to_available(claim_amount, available_amount) ==
    IF claim_amount > available_amount THEN available_amount ELSE claim_amount

\* The share loop's shareamt for one share record.
shareamt_of_remaining(pcsum, total_share_available, share_available, percent) ==
    IF pcsum >= 100 THEN total_share_available
    ELSE (total_share_available * percent) \div 100

shareamt_of_running(pcsum, total_share_available, share_available, percent) ==
    IF pcsum >= 100 THEN share_available
    ELSE (share_available * percent) \div 100

shareamt_of(pcsum, total_share_available, share_available, percent) ==
    IF pcsum >= 100 THEN share_available
    ELSE (total_share_available * percent) \div 100

\* ------------------------------------------------- balance mutation primitives

sub_balance_unchecked(s, owner, value) ==
    LET s1 == Check(s, owner \in DOMAIN s.accts, "no balance object found")
    IN IF s1.err # "" THEN s1
       ELSE [s1 EXCEPT !.accts =
                Put(s1.accts, owner, [s1.accts[owner] EXCEPT !.balance = @ - value])]

sub_balance(s, owner, value) ==
    LET s1 == Check(s, owner \in DOMAIN s.accts, "no balance object found")
        s2 == Check(s1, s1.accts[owner].balance >= value, "overdrawn balance")
    IN IF s2.err # "" THEN s2
       ELSE [s2 EXCEPT !.accts =
                Put(s2.accts, owner, [s2.accts[owner] EXCEPT !.balance = @ - value])]

add_balance_net(s, owner, value, ram_payer) ==
    LET net == value - burn_amt_of(value, 1)
    IN IF s.err # "" THEN s
       ELSE IF owner \notin DOMAIN s.accts
       THEN [s EXCEPT !.accts =
                Put(s.accts, owner, [balance |-> net, last_claim_day |-> 0])]
       ELSE [s EXCEPT !.accts =
                Put(s.accts, owner, [s.accts[owner] EXCEPT !.balance = @ + net])]

add_balance(s, owner, value, ram_payer) ==
    IF s.err # "" THEN s
    ELSE IF owner \notin DOMAIN s.accts
    THEN [s EXCEPT !.accts =
             Put(s.accts, owner, [balance |-> value, last_claim_day |-> 0])]
    ELSE [s EXCEPT !.accts =
             Put(s.accts, owner, [s.accts[owner] EXCEPT !.balance = @ + value])]

\* ----------------------------------------------------------- try_ubi_claim

\* The sum of the balances of all rows of the accounts tables.
RECURSIVE BalanceSum(_, _)
BalanceSum(tbl, S) ==
    IF S = {} THEN 0
    ELSE LET k == CHOOSE x \in S : TRUE
         IN tbl[k].balance + BalanceSum(tbl, S \ {k})

TotalBalance(tbl) ==
    BalanceSum(tbl, DOMAIN tbl)

\* The record kept of one call of try_ubi_claim: its arguments, what it read
\* (lcd, balance), its local results, the claimant's row and the currency's
\* statistics before and after the call, and the accounts tables before and
\* after it.
SettleRecord(s0, s1, from, fail, burn, claim, lost, next, portions, residue, result, err) ==
    [from |-> from, fail |-> fail, today |-> today, err |-> err,
     lcd |-> s0.accts[from].last_claim_day,
     balance |-> s0.accts[from].balance,
     burn_amt |-> burn, claim |-> claim, lost_days |-> lost, next_day |-> next,
     portions |-> portions, residue |-> residue, result |-> result,
     nevents |-> Len(s1.events) - Len(s0.events),
     credited |-> TotalBalance(s1.accts) - TotalBalance(s0.accts) + burn,
     before |-> [acct |-> s0.accts[from], stat |-> s0.stats[COIN_SYMBOL]],
     after |-> [acct |-> s1.accts[from], stat |-> s1.stats[COIN_SYMBOL]],
     accts0 |-> s0.accts, accts1 |-> s1.accts]

\* The while loop over the shares table of `from`, from the share with the
\* least beneficiary on: keys are the beneficiaries still to visit.
RECURSIVE share_loop(_, _, _, _, _, _, _, _)
share_loop_unguarded(s, from, payer, keys, pcsum, total_share_available, share_available, portions) ==
    IF keys = <<>>
    THEN [s |-> s, share_available |-> share_available, portions |-> portions]
    ELSE LET sh == [to |-> Head(keys), percent |-> s.shares[from][Head(keys)]]
             pcsum1 == pcsum + sh.percent
             shareamt == shareamt_of(pcsum1, total_share_available, share_available, sh.percent)
             logged == [s EXCEPT !.events = Append(@,
                           [name |-> "shareincome", from |-> from, to |-> sh.to,
                            quantity |-> shareamt, percent |-> sh.percent])]
             given == add_balance(logged, sh.to, shareamt, payer)
         IN share_loop(given, from, payer, Tail(keys), pcsum1, total_share_available,
                       share_available - shareamt,
                       Append(portions, [to |-> sh.to, amount |-> shareamt, percent |-> sh.percent]))

share_loop(s, from, payer, keys, pcsum, total_share_available, share_available, portions) ==
    IF keys = <<>> \/ share_available <= 0
    THEN [s |-> s, share_available |-> share_available, portions |-> portions]
    ELSE LET sh == [to |-> Head(keys), percent |-> s.shares[from][Head(keys)]]
             pcsum1 == pcsum + sh.percent
             shareamt == shareamt_of(pcsum1, total_share_available, share_available, sh.percent)
             logged == [s EXCEPT !.events = Append(@,
                           [name |-> "shareincome", from |-> from, to |-> sh.to,
                            quantity |-> shareamt, percent |-> sh.percent])]
             given == add_balance(logged, sh.to, shareamt, payer)
         IN share_loop(given, from, payer, Tail(keys), pcsum1, total_share_available,
                       share_available - shareamt,
                       Append(portions, [to |-> sh.to, amount |-> shareamt, percent |-> sh.percent]))

\* from_acnts.modify: last_claim_day = today, balance -= burn_amt; log_tax;
\* statstable.modify: supply -= burn_quantity, burned += burn_quantity
charge_demurrage_keeps_day(s, from, burn_amt) ==
    [s EXCEPT
        !.accts = Put(s.accts, from,
                      [s.accts[from] EXCEPT !.balance = @ - burn_amt]),
        !.events = Append(@, [name |-> "tax", owner |-> from, quantity |-> burn_amt]),
        !.stats = Put(s.stats, COIN_SYMBOL,
                      [s.stats[COIN_SYMBOL] EXCEPT !.supply = @ - burn_amt,
                                                   !.burned = @ + burn_amt])]

charge_demurrage_unburned(s, from, burn_amt) ==
    [s EXCEPT
        !.accts = Put(s.accts, from,
                      [last_claim_day |-> today, balance |-> s.accts[from].balance]),
        !.events = Append(@, [name |-> "tax", owner |-> from, quantity |-> 0])]

charge_demurrage_untracked(s, from, burn_amt) ==
    [s EXCEPT
        !.accts = Put(s.accts, from,
                      [last_claim_day |-> today,
                       balance |-> s.accts[from].balance - burn_amt]),
        !.events = Append(@, [name |-> "tax", owner |-> from, quantity |-> burn_amt])]

charge_demurrage_yesterday(s, from, burn_amt) ==
    [s EXCEPT
        !.accts = Put(s.accts, from,
                      [last_claim_day |-> today - 1,
                       balance |-> s.accts[from].balance - burn_amt]),
        !.events = Append(@, [name |-> "tax", owner |-> from, quantity |-> burn_amt]),
        !.stats = Put(s.stats, COIN_SYMBOL,
                      [s.stats[COIN_SYMBOL] EXCEPT !.supply = @ - burn_amt,
                                                   !.burned = @ + burn_amt])]

charge_demurrage(s, from, burn_amt) ==
    [s EXCEPT
        !.accts = Put(s.accts, from,
                      [last_claim_day |-> today,
                       balance |-> s.accts[from].balance - burn_amt]),
        !.events = Append(@, [name |-> "tax", owner |-> from, quantity |-> burn_amt]),
        !.stats = Put(s.stats, COIN_SYMBOL,
                      [s.stats[COIN_SYMBOL] EXCEPT !.supply = @ - burn_amt,
                                                   !.burned = @ + burn_amt])]

\* statstable.modify( st, ... ): s.supply += claim_quantity; ++s.claims
count_claim_uncounted(st, claim_quantity) ==
    [st EXCEPT !.supply = @ + claim_quantity]

count_claim(st, claim_quantity) ==
    [st EXCEPT !.supply = @ + claim_quantity, !.claims = @ + 1]

\* The inline "income" action: its memo is "next on " and the date of day
\* next_last_claim_day + 1, followed by the lost days when there are any.
log_claim_same_day(s, claimant, claim_quantity, next_last_claim_day, lost_days) ==
    [s EXCEPT !.events = Append(@, [name |-> "income", to |-> claimant,
                                    quantity |-> claim_quantity,
                                    next |-> next_last_claim_day,
                                    lost_days |-> lost_days])]

log_claim(s, claimant, claim_quantity, next_last_claim_day, lost_days) ==
    [s EXCEPT !.events = Append(@, [name |-> "income", to |-> claimant,
                                    quantity |-> claim_quantity,
                                    next |-> next_last_claim_day + 1,
                                    lost_days |-> lost_days])]

\* if ( share_available > 0 ) add_balance( from, claim_quantity, payer ),
\* claim_quantity being set to share_available
credit_residue_dropped(s, from, share_available, payer) ==
    s

credit_residue(s, from, share_available, payer) ==
    IF share_available > 0
    THEN add_balance(s, from, share_available, payer)
    ELSE s

\* The part of try_ubi_claim after the claimant's row was found and
\* curr_lcd < today was established.
settle_due(s, from, payer, fail) ==
    LET from_account == s.accts[from]
        curr_lcd == from_account.last_claim_day
        ni_days == ni_days_of(curr_lcd, today)
        burn_amt == burn_amt_of(from_account.balance, ni_days)
        taxed == charge_demurrage(s, from, burn_amt)
        eff_lcd == effective_lcd(curr_lcd, today)
        pending == pending_days(eff_lcd, today)
        lost_days == lost_days_of(pending)
        claim_amount == claim_days_of(pending)
        st == taxed.stats[COIN_SYMBOL]
        available_amount == st.max_supply - st.supply
        claim_quantity == clamp_to_available(claim_amount * PRECISION_MULTIPLIER,
                                             available_amount)
        last_claim_day_delta == lost_days + (claim_quantity \div PRECISION_MULTIPLIER)
    IN IF claim_quantity <= 0
       THEN Check([taxed EXCEPT !.settles = Append(@,
                      SettleRecord(s, taxed, from, fail, burn_amt, 0, lost_days, 0,
                                   <<>>, 0, "no coins",
                                   IF fail THEN "no coins" ELSE ""))],
                  ~fail, "no coins")
       ELSE LET \* log_claim; statstable.modify: supply += claim_quantity, ++claims
                logged == log_claim(taxed, from, claim_quantity,
                                    eff_lcd + last_claim_day_delta, lost_days)
                minted == [logged EXCEPT
                    !.stats = Put(taxed.stats, COIN_SYMBOL,
                                  count_claim(st, claim_quantity))]
                d == share_loop(minted, from, payer, Ascending(DOMAIN minted.shares[from]),
                                0, claim_quantity, claim_quantity, <<>>)
                paid == credit_residue(d.s, from, d.share_available, payer)
            IN [paid EXCEPT !.settles = Append(@,
                   SettleRecord(s, paid, from, fail, burn_amt, claim_quantity, lost_days,
                                eff_lcd + last_claim_day_delta + 1, d.portions,
                                IF d.share_available > 0 THEN d.share_available ELSE 0,
                                "paid", ""))]

nothing_due_settles(s, from, fail) ==
    settle_due(s, from, from, fail)

\* if (curr_lcd >= today) { if (fail) check( false, ... ); return; }
nothing_due(s, from, fail) ==
    Check([s EXCEPT !.settles = Append(@,
              SettleRecord(s, s, from, fail, 0, 0, 0, 0, <<>>, 0, "nothing due",
                           IF fail THEN "no pending income to claim" ELSE ""))],
          ~fail, "no pending income to claim")

try_ubi_claim(s, from, payer, fail) ==
    IF s.err # "" THEN s
    ELSE IF from \notin DOMAIN s.accts THEN Check(s, FALSE, "no balance object found")
    ELSE IF s.accts[from].last_claim_day >= today THEN nothing_due(s, from, fail)
    ELSE settle_due(s, from, payer, fail)

\* ---------------------------------------------------------------- handlers
\* Authorization (require_auth), is_account, symbol and memo validity are
\* taken to hold: every caller is the account the action requires, every
\* name in Accounts is an account, and the one symbol is 4,XDL.  The RAM
\* payer is passed on as in the code and has no effect on the tables' rows.

create(s, issuer, maximum_supply) ==
    LET s1 == Check(s, maximum_supply > 0, "max-supply must be positive")
        s2 == Check(s1, COIN_SYMBOL \notin DOMAIN s1.stats, "token with symbol already exists")
    IN IF s2.err # "" THEN s2
       ELSE [s2 EXCEPT !.stats = Put(s2.stats, COIN_SYMBOL,
                [supply |-> 0, max_supply |-> maximum_supply, issuer |-> issuer,
                 burned |-> 0, claims |-> 0])]

transfer_sender_only(s, from, to, quantity, payer) ==
    LET s1 == Check(s, from # to, "cannot transfer to self")
        s2 == Check(s1, COIN_SYMBOL \in DOMAIN s1.stats, "symbol does not exist")
        s3 == Check(s2, quantity > 0, "must transfer positive quantity")
        s4 == try_ubi_claim(s3, from, payer, FALSE)
        s6 == sub_balance(s4, from, quantity)
    IN add_balance(s6, to, quantity, payer)

transfer(s, from, to, quantity, payer) ==
    LET s1 == Check(s, from # to, "cannot transfer to self")
        s2 == Check(s1, COIN_SYMBOL \in DOMAIN s1.stats, "symbol does not exist")
        s3 == Check(s2, quantity > 0, "must transfer positive quantity")
        s4 == try_ubi_claim(s3, from, payer, FALSE)
        s5 == try_ubi_claim(s4, to, payer, FALSE)
        s6 == sub_balance(s5, from, quantity)
    IN add_balance(s6, to, quantity, payer)

issue(s, to, quantity) ==
    LET s1 == Check(s, COIN_SYMBOL \in DOMAIN s.stats,
                    "token with symbol does not exist, create token before issue")
        s2 == Check(s1, quantity > 0, "must issue positive quantity")
        s3 == Check(s2, quantity <= s2.stats[COIN_SYMBOL].max_supply
                                    - s2.stats[COIN_SYMBOL].supply,
                    "quantity exceeds available supply")
    IN IF s3.err # "" THEN s3
       ELSE LET st == s3.stats[COIN_SYMBOL]
                s4 == [s3 EXCEPT !.stats = Put(s3.stats, COIN_SYMBOL,
                                               [st EXCEPT !.supply = @ + quantity])]
                s5 == add_balance(s4, st.issuer, quantity, st.issuer)
            IN IF to # st.issuer
               THEN transfer(s5, st.issuer, to, quantity, st.issuer)
               ELSE s5

retire_unburned(s, quantity) ==
    LET s1 == Check(s, COIN_SYMBOL \in DOMAIN s.stats, "token with symbol does not exist")
        s2 == Check(s1, quantity > 0, "must retire positive quantity")
    IN IF s2.err # "" THEN s2
       ELSE LET st == s2.stats[COIN_SYMBOL]
                s3 == [s2 EXCEPT !.stats = Put(s2.stats, COIN_SYMBOL,
                          [st EXCEPT !.supply = @ - quantity, !.burned = @ - quantity])]
            IN sub_balance(s3, st.issuer, quantity)

retire(s, quantity) ==
    LET s1 == Check(s, COIN_SYMBOL \in DOMAIN s.stats, "token with symbol does not exist")
        s2 == Check(s1, quantity > 0, "must retire positive quantity")
    IN IF s2.err # "" THEN s2
       ELSE LET st == s2.stats[COIN_SYMBOL]
                s3 == [s2 EXCEPT !.stats = Put(s2.stats, COIN_SYMBOL,
                          [st EXCEPT !.supply = @ - quantity, !.burned = @ + quantity])]
            IN sub_balance(s3, st.issuer, quantity)

burn_lowering_cap(s, owner, quantity) ==
    LET s1 == Check(s, COIN_SYMBOL \in DOMAIN s.stats, "token with symbol does not exist")
        s2 == Check(s1, quantity > 0, "must retire positive quantity")
    IN IF s2.err # "" THEN s2
       ELSE LET st == s2.stats[COIN_SYMBOL]
                s3 == [s2 EXCEPT !.stats = Put(s2.stats, COIN_SYMBOL,
                          [st EXCEPT !.supply = @ - quantity, !.burned = @ + quantity,
                                     !.max_supply = @ - quantity])]
            IN sub_balance(s3, owner, quantity)

burn_unrecorded(s, owner, quantity) ==
    LET s1 == Check(s, COIN_SYMBOL \in DOMAIN s.stats, "token with symbol does not exist")
        s2 == Check(s1, quantity > 0, "must retire positive quantity")
    IN IF s2.err # "" THEN s2
       ELSE LET st == s2.stats[COIN_SYMBOL]
                s3 == [s2 EXCEPT !.stats = Put(s2.stats, COIN_SYMBOL,
                          [st EXCEPT !.supply = @ - quantity])]
            IN sub_balance(s3, owner, quantity)

burn(s, owner, quantity) ==
    LET s1 == Check(s, COIN_SYMBOL \in DOMAIN s.stats, "token with symbol does not exist")
        s2 == Check(s1, quantity > 0, "must retire positive quantity")
    IN IF s2.err # "" THEN s2
       ELSE LET st == s2.stats[COIN_SYMBOL]
                s3 == [s2 EXCEPT !.stats = Put(s2.stats, COIN_SYMBOL,
                          [st EXCEPT !.supply = @ - quantity, !.burned = @ + quantity])]
            IN sub_balance(s3, owner, quantity)

open(s, owner, ram_payer) ==
    LET s1 == Check(s, COIN_SYMBOL \in DOMAIN s.stats, "symbol does not exist")
    IN IF s1.err # "" \/ owner \in DOMAIN s1.accts THEN s1
       ELSE [s1 EXCEPT !.accts = Put(s1.accts, owner, [balance |-> 0, last_claim_day |-> 0])]

close_any_day(s, owner) ==
    LET s1 == Check(s, owner \in DOMAIN s.accts,
                    "Balance row already deleted or never existed. Action won't have any effect.")
        s2 == Check(s1, s1.accts[owner].balance = 0,
                    "Cannot close because the balance is not zero.")
    IN IF s2.err # "" THEN s2
       ELSE [s2 EXCEPT !.accts = Erase(s2.accts, owner)]

close(s, owner) ==
    LET s1 == Check(s, owner \in DOMAIN s.accts,
                    "Balance row already deleted or never existed. Action won't have any effect.")
        s2 == Check(s1, s1.accts[owner].balance = 0,
                    "Cannot close because the balance is not zero.")
        s3 == Check(s2, s2.accts[owner].last_claim_day < today,
                    "Cannot close() yet: income was already claimed for today.")
    IN IF s3.err # "" THEN s3
       ELSE [s3 EXCEPT !.accts = Erase(s3.accts, owner)]

claimfor_unopened(s, owner, ram_payer) ==
    LET s2 == Check(s, COIN_SYMBOL \in DOMAIN s.stats, "unable to find key")
    IN try_ubi_claim(s2, owner, ram_payer, TRUE)

claimfor(s, owner, ram_payer) ==
    LET s1 == open(s, owner, ram_payer)
        s2 == Check(s1, COIN_SYMBOL \in DOMAIN s1.stats, "unable to find key")
    IN try_ubi_claim(s2, owner, ram_payer, TRUE)

claim(s, owner) ==
    claimfor(s, owner, owner)

\* The sum of percent over the shares table of one owner.
pcsum_of(stbl) ==
    SumOver(stbl, DOMAIN stbl)

setshare_unchecked(s, owner, to, percent) ==
    LET s1 == Check(s, (percent >= 0) /\ (percent <= 100), "invalid percent value")
        s2 == Check(s1, owner # to, "cannot setshare to self")
    IN IF s2.err # "" THEN s2
       ELSE [s2 EXCEPT !.shares[owner] =
                IF percent > 0 THEN Put(@, to, percent) ELSE Erase(@, to)]

setshare_keeps_zero(s, owner, to, percent) ==
    LET s1 == Check(s, (percent >= 0) /\ (percent <= 100), "invalid percent value")
        s2 == Check(s1, owner # to, "cannot setshare to self")
        stbl1 == Put(s2.shares[owner], to, percent)
    IN IF s2.err # "" THEN s2
       ELSE Check([s2 EXCEPT !.shares[owner] = stbl1],
                  pcsum_of(stbl1) <= 100, "share total would exceed 100%")

setshare(s, owner, to, percent) ==
    LET s1 == Check(s, (percent >= 0) /\ (percent <= 100), "invalid percent value")
        s2 == Check(s1, owner # to, "cannot setshare to self")
        stbl == s2.shares[owner]
        stbl1 == IF to \notin DOMAIN stbl
                 THEN (IF percent > 0 THEN Put(stbl, to, percent) ELSE stbl)
                 ELSE (IF percent > 0 THEN Put(stbl, to, percent) ELSE Erase(stbl, to))
    IN IF s2.err # "" THEN s2
       ELSE Check([s2 EXCEPT !.shares[owner] = stbl1],
                  pcsum_of(stbl1) <= 100, "share total would exceed 100%")

resetshare_all(s, owner) ==
    [s EXCEPT !.shares = [a \in DOMAIN s.shares |-> EmptyTable]]

resetshare(s, owner) ==
    [s EXCEPT !.shares[owner] = EmptyTable]

\* The profiles table of an owner holds at most one row (primary key 0):
\* s.profiles maps the owners that have the row to the stored profile.
setprofile(s, owner, profile) ==
    LET psize == profile
        s1 == Check(s, psize <= 1024, "profile has more than 1024 bytes")
    IN IF s1.err # "" THEN s1
       ELSE IF owner \notin DOMAIN s1.profiles
       THEN IF psize > 0
            THEN [s1 EXCEPT !.profiles = Put(s1.profiles, owner, profile)]
            ELSE s1
       ELSE IF psize > 0
            THEN [s1 EXCEPT !.profiles = Put(s1.profiles, owner, profile)]
            ELSE [s1 EXCEPT !.profiles = Erase(s1.profiles, owner)]

\* ----------------------------------------------------------------- actions

\* One transaction: the handler's outcome replaces the tables, and `last`
\* records the action, its arguments and the message of the failed check.
\* nops counts the transactions pushed so far, at most MaxOps; mints counts,
\* for each account, the settlements of completed transactions that minted
\* UBI for it on the current day.
Finish(act, owner, to, amount, r) ==
    /\ nops < MaxOps
    /\ \E o \in {Outcome(r)} :
          /\ nops' = nops + 1
          /\ accts' = o.accts
          /\ stats' = o.stats
          /\ shares' = o.shares
          /\ profiles' = o.profiles
          /\ events' = o.events
          /\ settles' = o.settles
          /\ last' = [act |-> act, owner |-> owner, to |-> to, amount |-> amount,
                      err |-> o.err]
          /\ mints' = [a \in Accounts |->
                          mints[a] + IF o.err # "" THEN 0
                                     ELSE Cardinality({i \in 1..Len(o.settles) :
                                              o.settles[i].from = a /\ o.settles[i].claim > 0})]
          /\ UNCHANGED today

Create ==
    \E issuer \in Issuers, maximum_supply \in MaxSupplies :
        Finish("create", issuer, 0, maximum_supply, create(Begin, issuer, maximum_supply))

Issue ==
    \E to \in Accounts, quantity \in Quantities :
        Finish("issue", 0, to, quantity, issue(Begin, to, quantity))

Retire ==
    \E quantity \in Quantities :
        Finish("retire", 0, 0, quantity, retire(Begin, quantity))

Transfer ==
    \E from \in Accounts, to \in Accounts, quantity \in Quantities :
        Finish("transfer", from, to, quantity, transfer(Begin, from, to, quantity, from))

Open ==
    \E owner \in Accounts :
        Finish("open", owner, 0, 0, open(Begin, owner, owner))

Close ==
    \E owner \in Accounts :
        Finish("close", owner, 0, 0, close(Begin, owner))

Claim ==
    \E owner \in Accounts :
        Finish("claim", owner, 0, 0, claim(Begin, owner))

ClaimFor ==
    \E owner \in Accounts, ram_payer \in Accounts :
        /\ ram_payer # owner
        /\ Finish("claimfor", owner, ram_payer, 0, claimfor(Begin, owner, ram_payer))

Burn ==
    \E owner \in Accounts, quantity \in Quantities :
        Finish("burn", owner, 0, quantity, burn(Begin, owner, quantity))

SetShare ==
    \E owner \in Sharers, to \in Accounts, percent \in Percents :
        Finish("setshare", owner, to, percent, setshare(Begin, owner, to, percent))

ResetShare ==
    \E owner \in Sharers :
        Finish("resetshare", owner, 0, 0, resetshare(Begin, owner))

SetProfile ==
    \E owner \in Profilers, profile \in Profiles :
        Finish("setprofile", owner, 0, profile, setprofile(Begin, owner, profile))

\* get_today(): the day count of the block time, which only moves forward.
Tick ==
    /\ today < MaxDay
    /\ today' = today + 1
    /\ events' = <<>>
    /\ settles' = <<>>
    /\ last' = [act |-> "tick", owner |-> 0, to |-> 0, amount |-> 0, err |-> ""]
    /\ mints' = [a \in Accounts |-> 0]
    /\ UNCHANGED <<accts, stats, shares, profiles, nops>>

Init ==
    /\ accts = EmptyTable
    /\ stats = EmptyTable
    /\ shares = [a \in Accounts |-> EmptyTable]
    /\ profiles = EmptyTable
    /\ today = StartDay
    /\ events = <<>>
    /\ settles = <<>>
    /\ last = [act |-> "deploy", owner |-> 0, to |-> 0, amount |-> 0, err |-> ""]
    /\ nops = 0
    /\ mints = [a \in Accounts |-> 0]

Next ==
    \/ Create
    \/ Issue
    \/ Retire
    \/ Transfer
    \/ Open
    \/ Close
    \/ Claim
    \/ ClaimFor
    \/ Burn
    \/ SetShare
    \/ ResetShare
    \/ SetProfile
    \/ Tick

Spec ==
    Init /\ [][Next]_vars

\* ------------------------------------------------- long gaps between blocks

\* The same contract when the block time moves by long gaps, with a
\* max_supply that leaves room for a year of income.
CreateAmple ==
    \E issuer \in Issuers, maximum_supply \in AmpleSupplies :
        Finish("create", issuer, 0, maximum_supply, create(Begin, issuer, maximum_supply))

\* get_today() at the next block that carries a transaction.
Leap ==
    \E i \in 1..Len(LeapDays) :
        /\ LeapDays[i] > today
        /\ today' = LeapDays[i]
        /\ events' = <<>>
        /\ settles' = <<>>
        /\ last' = [act |-> "tick", owner |-> 0, to |-> 0, amount |-> 0, err |-> ""]
        /\ mints' = [a \in Accounts |-> 0]
        /\ UNCHANGED <<accts, stats, shares, profiles, nops>>

InitLeap ==
    /\ accts = EmptyTable
    /\ stats = EmptyTable
    /\ shares = [a \in Accounts |-> EmptyTable]
    /\ profiles = EmptyTable
    /\ today = Head(LeapDays)
    /\ events = <<>>
    /\ settles = <<>>
    /\ last = [act |-> "deploy", owner |-> 0, to |-> 0, amount |-> 0, err |-> ""]
    /\ nops = 0
    /\ mints = [a \in Accounts |-> 0]

NextLeap ==
    \/ CreateAmple
    \/ Issue
    \/ Transfer
    \/ Open
    \/ Claim
    \/ Leap

LeapSpec ==
    InitLeap /\ [][NextLeap]_vars

\* ------------------------------------------------- shares of several owners

\* setshare and resetshare pushed by every account: the shares tables of
\* several owners side by side.  Neither action reads or writes another
\* table than the owner's shares.
SetShareAny ==
    \E owner \in Accounts, to \in Accounts, percent \in Percents :
        Finish("setshare", owner, to, percent, setshare(Begin, owner, to, percent))

ResetShareAny ==
    \E owner \in Accounts :
        Finish("resetshare", owner, 0, 0, resetshare(Begin, owner))

NextShares ==
    \/ SetShareAny
    \/ ResetShareAny

SharesSpec ==
    Init /\ [][NextShares]_vars

\* --------------------------------------------- one account settled repeatedly

\* The state left by create(issuer 1, max_supply 12000000) and claim(1) on
\* the first of PathDays: account 1 holds its first unit and has
\* last_claim_day = today, the premise of any statement about an account
\* with last_claim_day = L > 0.  From there only account 1 claims, on
\* whichever of the later days it chooses.
InitPath ==
    /\ accts = Put(EmptyTable, 1, [balance |-> PRECISION_MULTIPLIER,
                                   last_claim_day |-> Head(PathDays)])
    /\ stats = Put(EmptyTable, COIN_SYMBOL,
                   [supply |-> PRECISION_MULTIPLIER, max_supply |-> 12000000,
                    issuer |-> 1, burned |-> 0, claims |-> 1])
    /\ shares = [a \in Accounts |-> EmptyTable]
    /\ profiles = EmptyTable
    /\ today = Head(PathDays)
    /\ events = <<>>
    /\ settles = <<>>
    /\ last = [act |-> "deploy", owner |-> 0, to |-> 0, amount |-> 0, err |-> ""]
    /\ nops = 0
    /\ mints = [a \in Accounts |-> IF a = 1 THEN 1 ELSE 0]

ClaimPath ==
    \E owner \in Claimants :
        Finish("claim", owner, 0, 0, claim(Begin, owner))

LeapPath ==
    \E i \in 1..Len(PathDays) :
        /\ PathDays[i] > today
        /\ today' = PathDays[i]
        /\ events' = <<>>
        /\ settles' = <<>>
        /\ last' = [act |-> "tick", owner |-> 0, to |-> 0, amount |-> 0, err |-> ""]
        /\ mints' = [a \in Accounts |-> 0]
        /\ UNCHANGED <<accts, stats, shares, profiles, nops>>

NextPath ==
    \/ ClaimPath
    \/ LeapPath

PathSpec ==
    InitPath /\ [][NextPath]_vars

\* ----------------------------------------------------------- days_to_string

\* Integer division of C++, which truncates towards zero.
TruncDiv(a, b) ==
    IF a >= 0 THEN a \div b ELSE 0 - ((0 - a) \div b)

\* A string is the sequence of its characters.
Digit(k) ==
    <<"0", "1", "2", "3", "4", "5", "6", "7", "8", "9">>[k + 1]

\* std::to_string of an integer
RECURSIVE to_string(_)
to_string(n) ==
    IF n < 0 THEN <<"-">> \o to_string(0 - n)
    ELSE IF n < 10 THEN <<Digit(n)>>
    ELSE to_string(n \div 10) \o <<Digit(n % 10)>>

\* if (s.length() == 1) s = "0" + s;
pad2_none(s) ==
    s

pad2(s) ==
    IF Len(s) = 1 THEN <<"0">> \o s ELSE s

\* era, doe, yoe, y, doy, mp, d, m of days_to_string.  The unsigned sum
\* mp + (mp < 10 ? 3 : -9) wraps modulo 2^32 to mp - 9 for mp in 10..11.
civil_from_days(days) ==
    LET days1 == days + 719468
        era == TruncDiv(IF days1 >= 0 THEN days1 ELSE days1 - 146096, 146097)
        doe == days1 - era * 146097
        yoe == (doe - (doe \div 1460) + (doe \div 36524) - (doe \div 146096)) \div 365
        y == yoe + era * 400
        doy == doe - (365 * yoe + (yoe \div 4) - (yoe \div 100))
        mp == (5 * doy + 2) \div 153
        d == doy - ((153 * mp + 2) \div 5) + 1
        m == IF mp < 10 THEN mp + 3 ELSE mp - 9
    IN [y |-> y, m |-> m, d |-> d]

days_to_string(days) ==
    LET c == civil_from_days(days)
        s == pad2(to_string(c.d))
        ms == pad2(to_string(c.m))
    IN s \o <<"-">> \o ms \o <<"-">> \o to_string(c.y + (IF c.m <= 2 THEN 1 ELSE 0))

\* The memo of the day: days_to_string applied to each day number from 0
\* to CalLast in turn, as log_claim applies it to the day it announces.
Rendered(days) ==
    <<[name |-> "memo", days |-> days, memo |-> days_to_string(days)]>>

InitCalendar ==
    /\ accts = EmptyTable
    /\ stats = EmptyTable
    /\ shares = [a \in Accounts |-> EmptyTable]
    /\ profiles = EmptyTable
    /\ today = 0
    /\ events = Rendered(0)
    /\ settles = <<>>
    /\ last = [act |-> "deploy", owner |-> 0, to |-> 0, amount |-> 0, err |-> ""]
    /\ nops = 0
    /\ mints = [a \in Accounts |-> 0]

NextDate ==
    /\ today < CalLast
    /\ today' = today + 1
    /\ events' = Rendered(today + 1)
    /\ UNCHANGED <<accts, stats, shares, profiles, settles, last, nops, mints>>

CalendarSpec ==
    InitCalendar /\ [][NextDate]_vars

\* ------------------------------------------------------------------ claims

Stat == stats[COIN_SYMBOL]

Created == COIN_SYMBOL \in DOMAIN stats

Settled == {settles[i] : i \in 1..Len(settles)}

\* C1: in every reachable state the currency statistics satisfy
\* 0 <= supply <= max_supply.
C1_SupplyBound ==
    Created => (0 <= Stat.supply /\ Stat.supply <= Stat.max_supply)

\* A claim whose UBI was cut by the supply cap has just filled the supply.
C1_Witness ==
    /\ Created
    /\ last.act = "claim" /\ last.err = ""
    /\ Stat.supply = Stat.max_supply
    /\ \E r \in Settled : r.claim > 0 /\ r.claim < PRECISION_MULTIPLIER

\* C2: every balance row has balance >= 0 at every action boundary; the
\* demurrage burn of every settlement lies between 0 and the balance it is
\* charged on.
C2_BalanceNonNegative ==
    /\ \A a \in DOMAIN accts : accts[a].balance >= 0
    /\ \A r \in Settled : 0 <= r.burn_amt /\ r.burn_amt <= r.balance

\* A transfer that charged a positive burn on the sender and then debited
\* the sender's whole balance.
C2_Witness ==
    /\ last.act = "transfer" /\ last.err = ""
    /\ accts[last.owner].balance = 0
    /\ \E r \in Settled : r.from = last.owner /\ r.burn_amt > 0

\* C3: for every settlement that mints T > 0, the portions of the share
\* beneficiaries plus the residue of the claimant are T exactly, and T is
\* what the settlement credits to the balance rows in total.
C3_Conservation ==
    \A r \in Settled :
        r.claim > 0 =>
            /\ SeqSum(r.portions) + r.residue = r.claim
            /\ r.credited = r.claim

\* A minted amount that is no multiple of 100 was split over two shares.
C3_Witness ==
    /\ last.err = ""
    /\ \E r \in Settled :
          r.claim > 0 /\ Len(r.portions) = 2 /\ r.claim % 100 # 0

BurnedNow == IF Created THEN Stat.burned ELSE 0

ClaimsNow == IF Created THEN Stat.claims ELSE 0

\* C4: burned and claims never decrease from one state to the next.
C4_MonotonicCounters ==
    [][BurnedNow' >= BurnedNow /\ ClaimsNow' >= ClaimsNow]_vars

\* A retire went through after a claim: both counters have grown.
C4_Witness ==
    /\ last.act = "retire" /\ last.err = ""
    /\ BurnedNow > 0 /\ ClaimsNow > 0

\* C5: for every owner the percents of the stored share records sum to at
\* most 100.
C5_ShareSumBound ==
    \A o \in DOMAIN shares : pcsum_of(shares[o]) <= 100

\* A setshare that would have brought a full table above 100 was refused.
C5_Witness ==
    /\ last.act = "setshare" /\ last.err = "share total would exceed 100%"
    /\ pcsum_of(shares[last.owner]) = 100

\* C6: a settlement of an account already settled today changes nothing
\* (row, statistics, events); with fail = FALSE it raises no error, with
\* fail = TRUE it fails with "no pending income to claim".
C6_IdempotentNoOp ==
    \A r \in Settled :
        (r.lcd = r.today) =>
            /\ r.result = "nothing due"
            /\ r.after = r.before
            /\ r.nevents = 0
            /\ r.err = (IF r.fail THEN "no pending income to claim" ELSE "")
            /\ r.fail => last.err = "no pending income to claim"

\* A transfer went through whose sender had been settled earlier today.
C6_Witness ==
    /\ last.act = "transfer" /\ last.err = ""
    /\ \E r \in Settled : r.from = last.owner /\ r.lcd = today /\ ~r.fail

Affected ==
    CASE last.act = "transfer" -> {last.owner, last.to}
      [] last.act = "issue" -> {Stat.issuer, last.to}
      [] last.act = "retire" -> {Stat.issuer}
      [] last.act = "burn" -> {last.owner}
      [] OTHER -> {}

\* C9 as claimed: after a transfer, issue, retire or burn every account
\* whose balance the action changed has last_claim_day = today (it was
\* settled before its balance was changed).
C9_SettledBeforeMove ==
    (last.err = "" /\ last.act \in {"transfer", "issue", "retire", "burn"}) =>
        \A a \in Affected : a \in DOMAIN accts /\ accts[a].last_claim_day = today

\* C10 as claimed: a transfer of quantity to a recipient without a balance
\* row, from a sender whose balance after its settlement covers quantity and
\* who has no share for the recipient, succeeds and leaves the recipient a
\* new row holding exactly quantity.
C10_CreatedOnFirstDeposit ==
    [][(/\ last'.act = "transfer" /\ nops' = nops + 1
        /\ Created
        /\ last'.owner # last'.to
        /\ last'.to \notin DOMAIN accts
        /\ last'.owner \in DOMAIN accts
        /\ last'.to \notin DOMAIN shares[last'.owner]
        /\ LET s == try_ubi_claim(Begin, last'.owner, last'.owner, FALSE)
           IN s.err = "" /\ s.accts[last'.owner].balance >= last'.amount)
       => (/\ last'.err = ""
           /\ last'.to \in DOMAIN accts'
           /\ accts'[last'.to].balance = last'.amount)]_vars

\* C11: a settlement of an account with last_claim_day = L < today whose due
\* amount fits under max_supply mints (min(today - p - 1, 360) + 1) * 10000
\* raw units, p = L if L > 0 and p = today - 1 if L = 0: 5 days for L = 50,
\* today = 55; 361 days for L = 50, today = 500; one day for L = 0.
C11_MintedAmount ==
    \A r \in Settled :
        LET p == IF r.lcd > 0 THEN r.lcd ELSE r.today - 1
            elapsed == r.today - p - 1
            due == ((IF elapsed < 360 THEN elapsed ELSE 360) + 1) * 10000
            headroom == r.before.stat.max_supply - (r.before.stat.supply - r.burn_amt)
        IN (r.lcd < r.today /\ headroom >= due) =>
              /\ r.result = "paid"
              /\ r.claim = due
              /\ r.after.stat.supply = r.before.stat.supply - r.burn_amt + due
              /\ (r.lcd = 50 /\ r.today = 55) => r.claim = 5 * 10000
              /\ (r.lcd = 50 /\ r.today = 500) => r.claim = 361 * 10000
              /\ (r.lcd = 0) => r.claim = 10000

\* An account settled on day 50 has claimed on day 500 and was paid 361 days.
C11_Witness ==
    /\ last.act = "claim" /\ last.err = ""
    /\ today = 500
    /\ \E r \in Settled :
          /\ r.lcd = 50 /\ r.claim = 3610000
          /\ accts[r.from].balance = r.balance - r.burn_amt + 3610000

\* C12: for every settlement of an account with last_claim_day < today,
\* lost_days = max(0, (today - p - 1) - 360) with p as in C11 (89 for L = 50,
\* today = 500); the income event reports it; the settlement pays no more
\* than 361 days, and a later settlement pays no more than the days since the
\* settlement before it (one day on day 501 after a settlement on day 500).
C12_LostDays ==
    \A r \in Settled :
        LET p == IF r.lcd > 0 THEN r.lcd ELSE r.today - 1
            elapsed == r.today - p - 1
            lost == IF elapsed > 360 THEN elapsed - 360 ELSE 0
        IN (r.lcd < r.today) =>
              /\ r.lost_days = lost
              /\ (r.lcd = 50 /\ r.today = 500) => r.lost_days = 89
              /\ r.claim <= 361 * 10000
              /\ r.claim <= (r.today - p) * 10000
              /\ (r.lcd = 500 /\ r.today = 501) => r.claim <= 10000
              /\ (r.result = "paid" /\ last.err = "") =>
                    \E i \in 1..Len(events) :
                        /\ events[i].name = "income"
                        /\ events[i].to = r.from
                        /\ events[i].quantity = r.claim
                        /\ events[i].lost_days = lost

\* An account settled on day 50 has claimed on day 500: 89 days were lost
\* and the income event says so.
C12_Witness ==
    /\ last.act = "claim" /\ last.err = ""
    /\ today = 500
    /\ \E r \in Settled : r.lcd = 50 /\ r.lost_days = 89 /\ r.claim = 3610000
    /\ \E i \in 1..Len(events) : events[i].name = "income" /\ events[i].lost_days = 89

\* C13 as claimed: a never-settled account (last_claim_day = 0) settled on
\* day 100, with room under max_supply, accrues exactly one day's unit and
\* its stored last_claim_day is 99 afterwards.
C13_ScenarioA ==
    \A r \in Settled :
        LET headroom == r.before.stat.max_supply - (r.before.stat.supply - r.burn_amt)
        IN (r.lcd = 0 /\ r.today = 100 /\ headroom >= 10000 /\ last.err = "") =>
              /\ r.claim = 10000
              /\ accts[r.from].last_claim_day = 99

\* C13 as amended: a never-settled account (last_claim_day = 0) settled with
\* room under max_supply accrues exactly one day's unit, and its stored
\* last_claim_day is today afterwards: 100 when today = 100 (99 is only the
\* previous day the accrual is counted from).
C13_ScenarioAToday ==
    \A r \in Settled :
        LET headroom == r.before.stat.max_supply - (r.before.stat.supply - r.burn_amt)
        IN (r.lcd = 0 /\ headroom >= 10000) =>
              /\ r.claim = 10000
              /\ r.after.acct.last_claim_day = r.today
              /\ last.err = "" =>
                    /\ accts[r.from].last_claim_day = today
                    /\ (today = 100) => accts[r.from].last_claim_day = 100

\* A never-settled account has claimed on day 100: it was paid one day's
\* unit and its row holds day 100.
C13_Witness ==
    /\ last.act = "claim" /\ last.err = ""
    /\ today = 100
    /\ \E r \in Settled :
          /\ r.lcd = 0 /\ r.claim = 10000
          /\ accts[r.from].last_claim_day = 100

\* C14: the UBI minted by a settlement is the due amount cut to the room
\* max_supply - supply left after the settlement's own burn: it never
\* exceeds that room, it is the room exactly when more is due, and when the
\* room is 0 nothing is minted, claims stays, no income event is emitted,
\* and the settlement is a no-op (fail = FALSE) or fails with "no coins"
\* (fail = TRUE).
C14_SupplyCap ==
    \A r \in Settled :
        LET p == IF r.lcd > 0 THEN r.lcd ELSE r.today - 1
            elapsed == r.today - p - 1
            due == ((IF elapsed < 360 THEN elapsed ELSE 360) + 1) * 10000
            headroom == r.before.stat.max_supply - (r.before.stat.supply - r.burn_amt)
        IN (r.lcd < r.today) =>
              /\ r.claim <= headroom
              /\ (due > headroom) => r.claim = headroom
              /\ (r.claim > 0) =>
                    /\ r.after.stat.supply = r.before.stat.supply - r.burn_amt + r.claim
                    /\ r.after.stat.claims = r.before.stat.claims + 1
              /\ (headroom = 0) =>
                    /\ r.result = "no coins"
                    /\ r.after.stat.supply = r.before.stat.supply - r.burn_amt
                    /\ r.after.stat.claims = r.before.stat.claims
                    /\ r.after.acct.balance = r.balance - r.burn_amt
                    /\ r.nevents = 1
                    /\ \A i \in 1..Len(events) :
                          events[i].name = "income" => events[i].to # r.from
                    /\ r.err = (IF r.fail THEN "no coins" ELSE "")
                    /\ r.fail => (last.err = "no coins" /\ events = <<>>)

\* A transfer went through in which the sender's settlement was paid only
\* the room its own burn had made and the recipient's settlement found no
\* room at all.
C14_Witness ==
    /\ last.act = "transfer" /\ last.err = ""
    /\ \E r \in Settled :
          /\ r.from = last.owner /\ r.claim > 0 /\ r.claim < 10000
          /\ r.claim = r.before.stat.max_supply - (r.before.stat.supply - r.burn_amt)
    /\ \E r \in Settled :
          /\ r.from = last.to /\ r.lcd < r.today /\ r.claim = 0
          /\ r.result = "no coins" /\ ~r.fail
          /\ r.after.stat.claims = r.before.stat.claims

\* C15: a settlement that mints T hands out portions to the claimant's
\* shares in stored order (ascending beneficiary): a share at which the
\* running sum of percents is still below 100 receives floor(T * percent / 100)
\* of the original T, a share that brings the sum to 100 or more receives all
\* that remains, and the claimant keeps the rest; shares {2: 60, 3: 40} with
\* T = 1000000 give 600000, 400000 and 0.
C15_ShareDistribution ==
    /\ \A r \in Settled :
          (r.result = "paid") =>
              LET stbl == shares[r.from]
                  keys == Ascending(DOMAIN stbl)
                  T == r.claim
                  n == Len(r.portions)
              IN /\ n <= Len(keys)
                 /\ \A k \in 1..n :
                       LET pcsum == SumOver([j \in 1..k |-> stbl[keys[j]]], 1..k)
                           given == SumOver([j \in 1..n |-> r.portions[j].amount], 1..(k - 1))
                       IN /\ r.portions[k].to = keys[k]
                          /\ r.portions[k].percent = stbl[keys[k]]
                          /\ (pcsum < 100) =>
                                r.portions[k].amount = (T * stbl[keys[k]]) \div 100
                          /\ (pcsum >= 100) => r.portions[k].amount = T - given
                 /\ (n < Len(keys)) => SeqSum(r.portions) = T
                 /\ r.residue = T - SeqSum(r.portions)
    /\ LET s0 == [Begin EXCEPT !.shares[1] = [x \in {2, 3} |-> IF x = 2 THEN 60 ELSE 40]]
           d == share_loop(s0, 1, 1, <<2, 3>>, 0, 1000000, 1000000, <<>>)
       IN /\ d.portions = <<[to |-> 2, amount |-> 600000, percent |-> 60],
                             [to |-> 3, amount |-> 400000, percent |-> 40]>>
          /\ d.share_available = 0

\* An account with shares {2: 60, 3: 40} has claimed one day's unit: 6000
\* went to 2, 4000 to 3 and nothing to the claimant.
C15_Witness ==
    /\ last.act = "claim" /\ last.err = ""
    /\ \E r \in Settled :
          /\ r.claim = 10000 /\ r.residue = 0
          /\ DOMAIN shares[r.from] = {2, 3}
          /\ shares[r.from][2] = 60 /\ shares[r.from][3] = 40
          /\ Len(r.portions) = 2
          /\ r.portions[1].amount = 6000 /\ r.portions[2].amount = 4000
          /\ accts[2].balance >= 6000 /\ accts[3].balance >= 4000

\* C16: every settlement of an account with last_claim_day < today that
\* completes charges the demurrage burn of the elapsed days on the balance
\* the account had: the balance goes down by the burn (and up only by the
\* claimant's own residue of the UBI), supply goes down and burned goes up
\* by the burn, a positive balance is charged a positive burn, and the tax
\* event reports it; this also when the settlement pays no UBI.
C16_DecayAlways ==
    \A r \in Settled :
        (r.lcd < r.today /\ r.err = "") =>
            /\ r.burn_amt = r.balance -
                   TruncMul(pw(IF r.lcd > 0 THEN r.today - r.lcd ELSE 1), r.balance)
            /\ (r.balance > 0) => r.burn_amt > 0
            /\ r.after.acct.balance = r.balance - r.burn_amt + r.residue
            /\ r.after.stat.supply = r.before.stat.supply - r.burn_amt + r.claim
            /\ r.after.stat.burned = r.before.stat.burned + r.burn_amt
            /\ (r.claim = 0) => r.after.acct.balance = r.balance - r.burn_amt
            /\ (last.err = "") =>
                  \E i \in 1..Len(events) :
                      /\ events[i].name = "tax"
                      /\ events[i].owner = r.from
                      /\ events[i].quantity = r.burn_amt

\* A transfer went through whose sender, with no shares and a supply that
\* stood at max_supply, was charged the burn of many days and paid no more
\* UBI than the room that burn had made.
C16_Witness ==
    /\ last.act = "transfer" /\ last.err = ""
    /\ \E r \in Settled :
          /\ r.from = last.owner /\ r.lcd > 0 /\ r.lcd < r.today
          /\ DOMAIN shares[r.from] = {}
          /\ r.before.stat.supply = r.before.stat.max_supply
          /\ r.burn_amt > 1 /\ r.claim = r.burn_amt
          /\ r.after.stat.burned = r.before.stat.burned + r.burn_amt

\* C17: a balance row disappears only in a close of its owner that
\* succeeds; close succeeds exactly when the row exists, its balance is 0 and
\* its last_claim_day < today, which a row with last_claim_day = 0 always
\* meets; then the row and nothing else is removed, and in every other case
\* close fails and all rows stay as they were.
C17_DeletedOnlyByClose ==
    [][/\ \A a \in DOMAIN accts :
             (a \notin DOMAIN accts') =>
                 /\ last'.act = "close" /\ last'.owner = a /\ last'.err = ""
                 /\ accts[a].balance = 0
                 /\ accts[a].last_claim_day < today
       /\ (last'.act = "close" /\ nops' = nops + 1) =>
             LET o == last'.owner
                 ok == /\ o \in DOMAIN accts
                       /\ accts[o].balance = 0
                       /\ accts[o].last_claim_day < today
             IN /\ (last'.err = "") <=> ok
                /\ ok => /\ DOMAIN accts' = DOMAIN accts \ {o}
                         /\ \A b \in DOMAIN accts' : accts'[b] = accts[b]
                /\ (~ok) => accts' = accts
                /\ (o \in DOMAIN accts /\ accts[o].balance = 0
                       /\ accts[o].last_claim_day = 0) => last'.err = ""]_vars

\* On the second day an account was closed while another, settled the day
\* before, still holds the coins it was sent.
C17_Witness ==
    /\ last.act = "close" /\ last.err = ""
    /\ last.owner \notin DOMAIN accts
    /\ today = MaxDay
    /\ \E b \in DOMAIN accts : accts[b].balance > 0 /\ accts[b].last_claim_day = StartDay

\* C18: after every step each stored share record has 1 <= percent <= 100
\* and a beneficiary other than its owner; setshare(owner, to, 0) with
\* to # owner succeeds, leaves no record for (owner, to) and leaves the
\* owner's other records as they were.
C18_ShareRecords ==
    [][/\ \A o \in DOMAIN shares' :
             \A b \in DOMAIN shares'[o] :
                 /\ shares'[o][b] >= 1 /\ shares'[o][b] <= 100
                 /\ b # o
       /\ (last'.act = "setshare" /\ nops' = nops + 1 /\ last'.amount = 0) =>
             LET o == last'.owner
                 b == last'.to
             IN /\ (o # b) => last'.err = ""
                /\ b \notin DOMAIN shares'[o]
                /\ DOMAIN shares'[o] = DOMAIN shares[o] \ {b}
                /\ \A c \in DOMAIN shares'[o] : shares'[o][c] = shares[o][c]]_vars

\* setshare(1, to, 0) has removed one of two stored shares of account 1.
C18_Witness ==
    /\ last.act = "setshare" /\ last.amount = 0 /\ last.err = ""
    /\ last.to \notin DOMAIN shares[last.owner]
    /\ \E c \in DOMAIN shares[last.owner] : c # last.to /\ shares[last.owner][c] = 60
    /\ nops = 3

\* C19 as claimed: a transfer (between two accounts), burn or retire of
\* quantity q whose debited account has a row fails with "overdrawn balance",
\* changing nothing, when that account's balance (for transfer: after the
\* transfer's settlements) is below q, and otherwise succeeds and leaves the
\* account exactly q less.
C19_DebitExact ==
    [][(/\ nops' = nops + 1
        /\ Created
        /\ last'.act \in {"transfer", "burn", "retire"}
        /\ (last'.act = "transfer") => last'.owner # last'.to
        /\ (IF last'.act = "retire" THEN Stat.issuer ELSE last'.owner) \in DOMAIN accts)
       => LET q == last'.amount
              who == IF last'.act = "retire" THEN Stat.issuer ELSE last'.owner
              s1 == IF last'.act = "transfer"
                    THEN try_ubi_claim(Begin, who, who, FALSE)
                    ELSE Begin
              s2 == IF last'.act = "transfer" /\ last'.to \in DOMAIN s1.accts
                    THEN try_ubi_claim(s1, last'.to, who, FALSE)
                    ELSE s1
              bal == s2.accts[who].balance
          IN /\ (bal < q) =>
                   (last'.err = "overdrawn balance" /\ accts' = accts /\ stats' = stats)
             /\ (bal >= q) =>
                   /\ last'.err = ""
                   /\ who \in DOMAIN accts'
                   /\ accts'[who].balance = bal - q]_vars

\* C20: once the currency is created it stays, and its max_supply and issuer
\* never change; in every step supply changes by +quantity of a completed
\* issue, -quantity of a completed retire or burn, and, for each settlement
\* of a completed action, -burn and +claim, and by nothing else; open, close,
\* setshare, resetshare and setprofile leave the statistics row unchanged.
C20_StatsFrame ==
    [][/\ Created =>
             /\ Created'
             /\ Stat'.max_supply = Stat.max_supply
             /\ Stat'.issuer = Stat.issuer
             /\ Stat'.supply - Stat.supply =
                   IF nops' = nops + 1 /\ last'.err = ""
                   THEN (CASE last'.act = "issue" -> last'.amount
                           [] last'.act \in {"retire", "burn"} -> 0 - last'.amount
                           [] OTHER -> 0)
                        + SumOver([i \in 1..Len(settles') |->
                                      settles'[i].claim - settles'[i].burn_amt],
                                  1..Len(settles'))
                   ELSE 0
       /\ (last'.act \in {"open", "close", "setshare", "resetshare", "setprofile"}) =>
             stats' = stats]_vars

\* A setprofile has stored a profile after the supply had moved by an issue
\* and by a settlement: the statistics are those of before it.
C20_Witness ==
    /\ last.act = "setprofile" /\ last.err = ""
    /\ last.owner \in DOMAIN profiles
    /\ Created
    /\ Stat.burned > 0 /\ Stat.claims > 0
    /\ Stat.supply = Stat.max_supply

\* C21: every settlement that mints emits one income event that names the
\* claimant, the minted amount (after the supply clamp), the day
\* p + lost + (minted / 10000) + 1 (p the effective previous day, lost the lost
\* days of C12) and the lost days; a settlement that mints nothing emits none.
C21_IncomeEvent ==
    (last.err = "") =>
        /\ \A r \in Settled :
              LET p == IF r.lcd > 0 THEN r.lcd ELSE r.today - 1
                  elapsed == r.today - p - 1
                  lost == IF elapsed > 360 THEN elapsed - 360 ELSE 0
                  mine == {i \in 1..Len(events) :
                             events[i].name = "income" /\ events[i].to = r.from}
              IN /\ (r.claim > 0) =>
                       /\ Cardinality(mine) = 1
                       /\ \A i \in mine :
                             /\ events[i].quantity = r.claim
                             /\ events[i].next = p + lost + (r.claim \div 10000) + 1
                             /\ events[i].lost_days = lost
                 /\ (r.claim = 0) => mine = {}
        /\ \A i \in 1..Len(events) :
              (events[i].name = "income") =>
                  \E r \in Settled : r.from = events[i].to /\ r.claim > 0

\* An account settled on day 50 has claimed on day 500: the income event
\* names 3610000, day 50 + 89 + 361 + 1 = 501 and 89 lost days.
C21_Witness ==
    /\ last.act = "claim" /\ last.err = ""
    /\ today = 500
    /\ \E i \in 1..Len(events) :
          /\ events[i].name = "income" /\ events[i].to = last.owner
          /\ events[i].quantity = 3610000
          /\ events[i].next = 501
          /\ events[i].lost_days = 89

\* C22: the burn of a settlement is b - floor(b * 0.999^(e / 365)) for the
\* balance b the row held before the settlement (before any UBI is credited)
\* and the e days since the last settlement (1 for a never-settled row): it
\* is b - floor(b * 999 / 1000) for e = 365, it is 0 for b = 0, it lies in
\* 0..b, and it is no less than the burn of the same balance for any
\* shorter time.
C22_BurnFormula ==
    \A r \in Settled :
        (r.lcd < r.today) =>
            LET b == r.before.acct.balance
                e == IF r.lcd > 0 THEN r.today - r.lcd ELSE 1
            IN /\ r.balance = b
               /\ r.burn_amt = b - TruncMul(pw(e), b)
               /\ r.burn_amt >= 0 /\ r.burn_amt <= b
               /\ (b = 0) => r.burn_amt = 0
               /\ (e = 365 /\ b < 2000000) => r.burn_amt = b - ((b * 999) \div 1000)
               /\ (b > 0) => \A d \in 1..e : b - TruncMul(pw(d), b) <= r.burn_amt
               /\ r.burn_amt <= b - TruncMul(pw(e + 1), b)

\* An account that held 20000 since day 50 was settled on day 415, a year
\* later: it was charged 20, a thousandth.
C22_Witness ==
    /\ last.err = ""
    /\ today = 415
    /\ \E r \in Settled :
          /\ r.lcd = 50 /\ r.balance = 20000 /\ r.burn_amt = 20
          /\ r.after.acct.balance = 20000 - 20 + r.residue

\* C23: in every step the claims counter grows by the number of settlements
\* of the step's action that minted a positive amount, when the action
\* completed (one for a claim or claimfor, up to two for the two sides of a
\* transfer), and stays as it was in every other step.
C23_ClaimsCounter ==
    [][ClaimsNow' - ClaimsNow =
          IF nops' = nops + 1 /\ last'.err = ""
          THEN Cardinality({i \in 1..Len(settles') : settles'[i].claim > 0})
          ELSE 0]_vars

\* A transfer went through in which the settlements of both sides minted:
\* the counter went up by one in each of them.
C23_Witness ==
    /\ last.act = "transfer" /\ last.err = ""
    /\ Len(settles) = 2
    /\ settles[1].from = last.owner /\ settles[1].claim > 0
    /\ settles[2].from = last.to /\ settles[2].claim > 0
    /\ settles[1].after.stat.claims = settles[1].before.stat.claims + 1
    /\ settles[2].after.stat.claims = settles[2].before.stat.claims + 1
    /\ Stat.claims = settles[1].before.stat.claims + 2

\* C24: in every reachable state the supply of the currency equals the sum
\* of the balances of all stored balance rows (and there is no row while
\* there is no currency).
C24_LedgerConservation ==
    IF Created
    THEN Stat.supply = TotalBalance(accts)
    ELSE accts = EmptyTable

\* A settlement has charged a burn and handed out shares, and a retire or
\* burn had taken coins out before: supply and balances agree.
C24_Witness ==
    /\ last.err = ""
    /\ Created
    /\ Stat.burned >= 10000
    /\ \E r \in Settled : r.burn_amt > 0 /\ Len(r.portions) > 0
    /\ Stat.supply = TotalBalance(accts)
    /\ Stat.supply > 0

\* C25: on any one day at most one settlement mints UBI for an account,
\* whatever was done in between (close, open, claim, transfer); an account
\* that was minted for today has its row, with last_claim_day = today.
C25_OncePerDay ==
    \A a \in Accounts :
        /\ mints[a] <= 1
        /\ (mints[a] = 1) => (a \in DOMAIN accts /\ accts[a].last_claim_day = today)

\* An account that had claimed today and then burned all it held tried to
\* close its row and was refused: it still has the row and its one mint.
C25_Witness ==
    /\ last.act = "close"
    /\ last.err = "Cannot close() yet: income was already claimed for today."
    /\ mints[last.owner] = 1
    /\ accts[last.owner].balance = 0
    /\ accts[last.owner].last_claim_day = today

\* C26: after every transfer(from, to, q) that succeeded, from and to both
\* have last_claim_day = today; the transfer settled from, then to, and only
\* then moved q: the recipient holds what its settlement left it plus q, the
\* sender what its settlement left it, plus any share of the recipient's
\* income, less q.  The same holds of the transfer that an issue to another
\* account than the issuer carries out.
C26_BothSettled ==
    /\ (last.act = "issue" /\ last.err = "" /\ last.to # Stat.issuer) =>
          /\ accts[Stat.issuer].last_claim_day = today
          /\ last.to \in DOMAIN accts /\ accts[last.to].last_claim_day = today
          /\ Len(settles) = 2
          /\ settles[1].from = Stat.issuer
          /\ settles[2].from = last.to
          /\ accts[last.to].balance = settles[2].after.acct.balance + last.amount
    /\ (last.act = "transfer" /\ last.err = "") =>
        /\ last.owner \in DOMAIN accts /\ accts[last.owner].last_claim_day = today
        /\ last.to \in DOMAIN accts /\ accts[last.to].last_claim_day = today
        /\ Len(settles) = 2
        /\ settles[1].from = last.owner
        /\ settles[2].from = last.to
        /\ accts[last.to].balance = settles[2].after.acct.balance + last.amount
        /\ LET back == {i \in 1..Len(settles[2].portions) :
                           settles[2].portions[i].to = last.owner}
               shared == SumOver([i \in back |-> settles[2].portions[i].amount], back)
           IN accts[last.owner].balance =
                  settles[1].after.acct.balance + shared - last.amount

\* A transfer went through to a recipient that held coins since the day
\* before: the recipient was charged its burn and then credited q.
C26_Witness ==
    /\ last.act = "transfer" /\ last.err = ""
    /\ Len(settles) = 2
    /\ settles[2].lcd > 0 /\ settles[2].lcd < today
    /\ settles[2].burn_amt > 0
    /\ accts[last.to].last_claim_day = today
    /\ accts[last.to].balance = settles[2].after.acct.balance + last.amount

\* C27 as claimed: a transfer of q between two accounts, from a sender that
\* has a row, succeeds exactly when the sender's balance after its
\* settlement in this transfer (previous balance less the burn, plus the
\* residue of the UBI minted for it) is at least q.
C27_SpendAfterSettlement ==
    [][(/\ nops' = nops + 1
        /\ last'.act = "transfer"
        /\ Created
        /\ last'.owner # last'.to
        /\ last'.owner \in DOMAIN accts)
       => /\ Len(settles') >= 1
          /\ settles'[1].from = last'.owner
          /\ (last'.err = "") <=>
                (settles'[1].balance - settles'[1].burn_amt + settles'[1].residue
                    >= last'.amount)]_vars

\* C28: a settlement of an account with balance b and last_claim_day < today
\* leaves the account b less the burn of b, plus the whole residue of the
\* minted amount (the minted amount less the portions of the shares); the
\* balance of every other account grows by exactly the portions handed to
\* it, from 0 if it had no row.
C28_IncomeUntaxed ==
    \A r \in Settled :
        (r.lcd < r.today) =>
            LET e == IF r.lcd > 0 THEN r.today - r.lcd ELSE 1
                charged == r.balance - TruncMul(pw(e), r.balance)
            IN /\ r.residue = r.claim - SeqSum(r.portions)
               /\ r.after.acct.balance = (r.balance - charged) + r.residue
               /\ r.accts1[r.from] = r.after.acct
               /\ \A a \in Accounts \ {r.from} :
                     LET mine == {i \in 1..Len(r.portions) : r.portions[i].to = a}
                         got == SumOver([i \in mine |-> r.portions[i].amount], mine)
                         was == IF a \in DOMAIN r.accts0 THEN r.accts0[a].balance ELSE 0
                     IN IF a \in DOMAIN r.accts1
                        THEN r.accts1[a].balance = was + got
                        ELSE mine = {}

\* An account that held coins since the day before, with shares for two
\* others, has claimed: it was charged a burn and credited the residue, and
\* the two others their portions.
C28_Witness ==
    /\ last.act = "claim" /\ last.err = ""
    /\ \E r \in Settled :
          /\ r.lcd > 0 /\ r.lcd < r.today
          /\ r.burn_amt > 0 /\ r.residue > 0
          /\ Len(r.portions) = 2
          /\ accts[r.from].balance = r.balance - r.burn_amt + r.residue
          /\ \A i \in 1..2 : accts[r.portions[i].to].balance >= r.portions[i].amount

\* C29: a setshare is rejected when percent is outside 0..100, or
\* owner = to, or the owner's other shares plus percent exceed 100; a
\* rejected setshare leaves every shares table as it was, although the
\* record is written before the total is checked; and a setshare or
\* resetshare leaves the shares of every other owner as they were.
C29_RejectedSetShare ==
    [][(nops' = nops + 1) =>
          LET o == last'.owner
              b == last'.to
              pc == last'.amount
              others == DOMAIN shares[o] \ {b}
              total == SumOver(shares[o], others) + pc
          IN /\ \A x \in Accounts \ {o} : shares'[x] = shares[x]
             /\ (last'.err # "") => shares' = shares
             /\ (last'.act = "setshare" /\ (pc < 0 \/ pc > 100 \/ o = b \/ total > 100))
                   => last'.err # ""]_vars

\* A setshare that would have raised a stored share of 40 to 60 beside one
\* of 60 was rejected: the record still says 40, and another owner's share
\* is in place.
C29_Witness ==
    /\ last.act = "setshare" /\ last.err = "share total would exceed 100%"
    /\ last.amount = 60
    /\ last.to \in DOMAIN shares[last.owner]
    /\ shares[last.owner][last.to] = 40
    /\ pcsum_of(shares[last.owner]) = 100
    /\ \E x \in Accounts \ {last.owner} : shares[x] # EmptyTable

\* The portions that a set of share records and a minted amount T
\* determine: the beneficiary with k - 1 smaller beneficiaries is served
\* k-th; it receives floor(T * percent / 100) while the percents up to and
\* including its own stay below 100, and otherwise T less what the
\* smaller beneficiaries received.
Distribution(stbl, T) ==
    LET keys == DOMAIN stbl
        Below(b) == {y \in keys : y < b}
        Floor(y) == (T * stbl[y]) \div 100
        Portion(b) ==
            IF SumOver(stbl, Below(b)) + stbl[b] < 100
            THEN Floor(b)
            ELSE T - SumOver([y \in Below(b) |-> Floor(y)], Below(b))
    IN [k \in 1..Cardinality(keys) |->
           LET b == CHOOSE x \in keys : Cardinality(Below(x)) = k - 1
           IN [to |-> b, amount |-> Portion(b), percent |-> stbl[b]]]

\* C30: the portions of a settlement that mints T are a function of the
\* claimant's set of share records and of T alone, whatever sequence of
\* setshare and resetshare calls stored the records: beneficiaries are
\* served in ascending order, the one that completes 100% absorbs the
\* truncation remainder, and the claimant keeps what no share took.
C30_DeterministicDistribution ==
    \A r \in Settled :
        (r.result = "paid") =>
            /\ r.portions = Distribution(shares[r.from], r.claim)
            /\ r.residue = r.claim - SeqSum(Distribution(shares[r.from], r.claim))

\* Shares {2: 60, 3: 40}, stored by two setshare calls in either order,
\* have distributed a mint of which 60% is not whole: beneficiary 2 received
\* the truncated 60% and beneficiary 3, the larger identifier, all the rest.
C30_Witness ==
    /\ last.act = "claim" /\ last.err = ""
    /\ \E r \in Settled :
          /\ r.result = "paid"
          /\ shares[r.from] = [x \in {2, 3} |-> IF x = 2 THEN 60 ELSE 40]
          /\ (r.claim * 60) % 100 # 0
          /\ Len(r.portions) = 2
          /\ r.portions[1].to = 2 /\ r.portions[1].amount = (r.claim * 60) \div 100
          /\ r.portions[2].to = 3 /\ r.portions[2].amount > (r.claim * 40) \div 100
          /\ r.residue = 0

\* C31: the share loop terminates.  Every stored percent is at least 1 and
\* an owner's percents total at most 100, so an owner has at most 100 share
\* records; a settlement visits each record at most once, visits a further
\* record only while a positive amount remains, and a loop entered with
\* nothing remaining visits no record.
C31_LoopTerminates ==
    /\ \A o \in Accounts :
          /\ \A b \in DOMAIN shares[o] : shares[o][b] >= 1
          /\ pcsum_of(shares[o]) <= 100
          /\ Cardinality(DOMAIN shares[o]) <= 100
          /\ LET d == share_loop(Begin, o, o, Ascending(DOMAIN shares[o]), 0,
                                 PRECISION_MULTIPLIER, 0, <<>>)
             IN d.portions = <<>> /\ d.s = Begin
    /\ \A r \in Settled :
          LET n == Len(r.portions)
          IN /\ n <= Cardinality(DOMAIN shares[r.from])
             /\ \A i, j \in 1..n : (i # j) => r.portions[i].to # r.portions[j].to
             /\ \A k \in 1..n :
                   SumOver([j \in 1..n |-> r.portions[j].amount], 1..(k - 1)) < r.claim
             /\ r.nevents <= 2 + Cardinality(DOMAIN shares[r.from])

\* A claim paid for by another account has visited both share records of
\* the claimant once and has stopped with nothing remaining.
C31_Witness ==
    /\ last.act = "claimfor" /\ last.err = ""
    /\ \E r \in Settled :
          /\ r.result = "paid"
          /\ Cardinality(DOMAIN shares[r.from]) = 2
          /\ Len(r.portions) = 2
          /\ r.portions[1].to # r.portions[2].to
          /\ SeqSum(r.portions) = r.claim
          /\ r.nevents = 4

\* C32: a settlement that mints T credits the claimant nothing of it when
\* the claimant's share percents total exactly 100, and credits the claimant
\* a strictly positive residue of T less the sum of floor(T * percent / 100)
\* over its shares when they total less than 100.
C32_OwnerResidue ==
    \A r \in Settled :
        (r.result = "paid") =>
            LET stbl == shares[r.from]
                keys == DOMAIN stbl
                T == r.claim
                floors == SumOver([b \in keys |-> (T * stbl[b]) \div 100], keys)
            IN /\ r.after.acct.balance = r.balance - r.burn_amt + r.residue
               /\ (pcsum_of(stbl) = 100) =>
                     /\ r.residue = 0
                     /\ SeqSum(r.portions) = T
               /\ (pcsum_of(stbl) < 100) =>
                     /\ r.residue = T - floors
                     /\ r.residue > 0

\* A claimant with two shares of 40 has kept the residue of a mint of which
\* 40% is not whole: more than a fifth of it.
C32_Witness ==
    /\ last.act \in {"claim", "claimfor"} /\ last.err = ""
    /\ \E r \in Settled :
          /\ r.result = "paid"
          /\ pcsum_of(shares[r.from]) = 80
          /\ (r.claim * 40) % 100 # 0
          /\ r.residue * 5 > r.claim
          /\ accts[r.from].balance = r.balance - r.burn_amt + r.residue

\* C33: the day clock never goes back; every balance row has
\* last_claim_day <= today; a row that is created starts at 0 (or at today
\* when its creating transaction settled it); and while a row exists its
\* last_claim_day never decreases: a step leaves it as it was or sets it to
\* the current day.
C33_ClaimDayMonotonic ==
    [][/\ today' >= today
       /\ \A a \in DOMAIN accts : accts[a].last_claim_day <= today
       /\ \A a \in DOMAIN accts' :
             /\ accts'[a].last_claim_day <= today'
             /\ (a \notin DOMAIN accts) => accts'[a].last_claim_day \in {0, today'}
             /\ (a \in DOMAIN accts) =>
                   /\ accts'[a].last_claim_day >= accts[a].last_claim_day
                   /\ accts'[a].last_claim_day \in {accts[a].last_claim_day, today'}]_vars

\* After a long gap a transfer has settled its sender, whose row now says
\* today, and has credited a row settled on an earlier day, which it has
\* settled too; a third row is still at 0.
C33_Witness ==
    /\ last.act = "transfer" /\ last.err = ""
    /\ today > Head(LeapDays)
    /\ \E r \in Settled : r.from = last.to /\ r.lcd > 0 /\ r.lcd < today
    /\ accts[last.owner].last_claim_day = today
    /\ accts[last.to].last_claim_day = today
    /\ \E a \in DOMAIN accts : accts[a].last_claim_day = 0

\* C34: an account with last_claim_day = L > 0 and ample room under
\* max_supply that has last been settled on a day d with d - L <= 361 has
\* been minted (d - L) * 10000 since day L, whether it was settled on days
\* in between or not: the UBI minted since L is supply + burned less the
\* unit of day L, account 1 being the only holder.
C34_PathIndependence ==
    LET L == Head(PathDays)
        d == accts[1].last_claim_day
        minted == Stat.supply + Stat.burned - PRECISION_MULTIPLIER
    IN /\ d >= L
       /\ (d - L <= max_past_claim_days + 1) => minted = (d - L) * PRECISION_MULTIPLIER
       /\ \A r \in Settled :
             (r.result = "paid" /\ r.today - r.lcd <= max_past_claim_days + 1) =>
                 r.claim = (r.today - r.lcd) * PRECISION_MULTIPLIER

\* Account 1, settled on day 50, has been settled on a day in between and
\* again on day 411: 361 units were minted in the two settlements.
C34_Witness ==
    /\ last.act = "claim" /\ last.err = ""
    /\ today = 411 /\ accts[1].last_claim_day = 411
    /\ Stat.claims = 3
    /\ \E r \in Settled : r.lcd > Head(PathDays) /\ r.lcd < 411 /\ r.claim > 0
    /\ Stat.supply + Stat.burned = 362 * PRECISION_MULTIPLIER

\* C35: supply + burned is the total ever issued plus the total UBI ever
\* minted.  The currency starts with supply = burned = 0; a completed issue
\* raises supply + burned by its quantity and every minting settlement by
\* its mint, and nothing else changes the sum; burned rises by the quantity
\* of a completed retire or burn and by the demurrage of every settlement,
\* by which supply falls, and is changed by nothing else.
C35_BurnAccounting ==
    [][Created' =>
          LET done == nops' = nops + 1 /\ last'.err = ""
              recs == 1..Len(settles')
              supply0 == IF Created THEN Stat.supply ELSE 0
              burned0 == IF Created THEN Stat.burned ELSE 0
              issued == IF last'.act = "issue" THEN last'.amount ELSE 0
              destroyed == IF last'.act \in {"retire", "burn"} THEN last'.amount ELSE 0
          IN IF done
             THEN \E minted \in {SumOver([i \in recs |-> settles'[i].claim], recs)},
                     taxed \in {SumOver([i \in recs |-> settles'[i].burn_amt], recs)} :
                     /\ stats'[COIN_SYMBOL].burned = burned0 + destroyed + taxed
                     /\ stats'[COIN_SYMBOL].supply
                           = supply0 + issued + minted - destroyed - taxed
                     /\ stats'[COIN_SYMBOL].supply + stats'[COIN_SYMBOL].burned
                           = supply0 + burned0 + issued + minted
             ELSE /\ stats'[COIN_SYMBOL].burned = burned0
                  /\ stats'[COIN_SYMBOL].supply = supply0]_vars

\* The issuer, taxed and paid its income on the second day, has retired a
\* quantity: burned holds the quantity and the demurrage.
C35_Witness ==
    /\ last.act = "retire" /\ last.err = ""
    /\ Stat.claims > 0
    /\ Stat.burned > last.amount

\* C36 as claimed: whenever a row that already exists is credited a
\* positive amount, its last_claim_day is 0 or today at that moment: the
\* issuer's row at an issue, the recipient's row at a transfer (also the
\* inline transfer of an issue), a beneficiary's row at a share portion, and
\* the claimant's row at its residue.
C36_CreditedRowsCurrent ==
    [][(nops' = nops + 1 /\ last'.err = "") =>
          /\ (last'.act = "issue" /\ Stat.issuer \in DOMAIN accts) =>
                accts[Stat.issuer].last_claim_day \in {0, today}
          /\ (/\ last'.act \in {"transfer", "issue"}
              /\ last'.to \in DOMAIN accts
              /\ last'.act = "issue" => last'.to # Stat.issuer) =>
                accts'[last'.to].last_claim_day \in {0, today}
          /\ \A i \in 1..Len(settles') :
                LET r == settles'[i]
                IN /\ \A k \in 1..Len(r.portions) :
                         (r.portions[k].amount > 0 /\ r.portions[k].to \in DOMAIN r.accts0) =>
                             r.accts1[r.portions[k].to].last_claim_day \in {0, r.today}
                   /\ (r.residue > 0) => r.after.acct.last_claim_day \in {0, r.today}]_vars

\* C37: a settlement charges a row with last_claim_day > 0 the demurrage of
\* today - last_claim_day days, and a row with last_claim_day = 0 the
\* demurrage of exactly one day, on whatever day it is first settled.
C37_DecayDays ==
    \A r \in Settled :
        (r.lcd < r.today) =>
            /\ (r.lcd > 0) =>
                  r.burn_amt = r.balance - TruncMul(pw(r.today - r.lcd), r.balance)
            /\ (r.lcd = 0) =>
                  /\ r.burn_amt = r.balance - TruncMul(pw(1), r.balance)
                  /\ r.before.acct.balance - r.burn_amt
                        = TruncMul(PPB - pw_complement(1), r.balance)

\* A never-settled row holding 20000 or more is first settled 365 days or more
\* after the first block: it is charged 1, the demurrage of one day, less
\* than a year would have cost.
C37_Witness ==
    /\ last.err = ""
    /\ today >= Head(LeapDays) + 365
    /\ \E r \in Settled :
          /\ r.lcd = 0 /\ r.today = today
          /\ r.balance >= 20000
          /\ r.burn_amt = 1
          /\ r.burn_amt < r.balance - TruncMul(pw(365), r.balance)

\* C38 as claimed: every income event of a completed transaction announces
\* the day today + 1 as the next claim day, the day after the stored
\* last_claim_day of the claimant.
C38_NextDayAnnounced ==
    (last.err = "") =>
        \A i \in 1..Len(events) :
            (events[i].name = "income") =>
                /\ events[i].next = today + 1
                /\ events[i].next = accts[events[i].to].last_claim_day + 1

\* C39: once the currency exists, a claim or claimfor for an owner that has
\* no row, or a row with last_claim_day < today, completes whenever the
\* supply less the owner's demurrage is below max_supply: the owner then has
\* a row with last_claim_day = today, and the owner and its beneficiaries
\* are credited at least 1 raw unit in total.
C39_DailyClaim ==
    [][(/\ nops' = nops + 1
        /\ last'.act \in {"claim", "claimfor"}
        /\ Created
        /\ (last'.owner \in DOMAIN accts) => accts[last'.owner].last_claim_day < today)
       => LET o == last'.owner
              had == o \in DOMAIN accts
              b == IF had THEN accts[o].balance ELSE 0
              e == IF had /\ accts[o].last_claim_day > 0
                   THEN today - accts[o].last_claim_day ELSE 1
              charged == b - TruncMul(pw(e), b)
          IN (Stat.supply - charged < Stat.max_supply) =>
                /\ last'.err = ""
                /\ o \in DOMAIN accts'
                /\ accts'[o].last_claim_day = today
                /\ TotalBalance(accts') - TotalBalance(accts) + charged >= 1
                /\ stats'[COIN_SYMBOL].supply - Stat.supply + charged >= 1]_vars

\* A claimfor paid by another account for an owner that held nothing has
\* minted what room was left under max_supply, less than a day's unit.
C39_Witness ==
    /\ last.act = "claimfor" /\ last.err = ""
    /\ last.to # last.owner
    /\ accts[last.owner].last_claim_day = today
    /\ \E r \in Settled :
          /\ r.from = last.owner
          /\ r.lcd = 0 /\ r.balance = 0
          /\ r.claim >= 1 /\ r.claim < PRECISION_MULTIPLIER
          /\ r.credited = r.claim

\* The Gregorian calendar, read off a string DD-MM-YYYY.
DigitValue(ch) ==
    CHOOSE k \in 0..9 : Digit(k) = ch

IsDate(s) ==
    /\ Len(s) = 10
    /\ s[3] = "-" /\ s[6] = "-"
    /\ \A i \in {1, 2, 4, 5, 7, 8, 9, 10} : \E k \in 0..9 : Digit(k) = s[i]

DateOf(s) ==
    [d |-> 10 * DigitValue(s[1]) + DigitValue(s[2]),
     m |-> 10 * DigitValue(s[4]) + DigitValue(s[5]),
     y |-> 1000 * DigitValue(s[7]) + 100 * DigitValue(s[8])
           + 10 * DigitValue(s[9]) + DigitValue(s[10])]

IsLeapYear(y) ==
    (y % 4 = 0 /\ y % 100 # 0) \/ y % 400 = 0

DaysInMonth(m, y) ==
    IF m = 2 THEN (IF IsLeapYear(y) THEN 29 ELSE 28)
    ELSE IF m \in {4, 6, 9, 11} THEN 30 ELSE 31

DayAfter(c) ==
    IF c.d < DaysInMonth(c.m, c.y) THEN [c EXCEPT !.d = @ + 1]
    ELSE IF c.m < 12 THEN [d |-> 1, m |-> c.m + 1, y |-> c.y]
    ELSE [d |-> 1, m |-> 1, y |-> c.y + 1]

\* C40: days_to_string(d) is the Gregorian date of day d counted from
\* 1 January 1970, written DD-MM-YYYY with day and month padded to two
\* digits: day 0 gives 01-01-1970, the string of day d + 1 is the date that
\* follows the date of day d, day 11016 gives 29-02-2000 and day 47541
\* gives 01-03-2100.
C40_CalendarDate ==
    [][/\ IsDate(events[1].memo)
       /\ IsDate(events'[1].memo)
       /\ (today = 0) =>
             events[1].memo = <<"0", "1", "-", "0", "1", "-", "1", "9", "7", "0">>
       /\ DateOf(events[1].memo).d \in 1..DaysInMonth(DateOf(events[1].memo).m,
                                                       DateOf(events[1].memo).y)
       /\ DateOf(events[1].memo).m \in 1..12
       /\ events'[1].days = events[1].days + 1
       /\ DateOf(events'[1].memo) = DayAfter(DateOf(events[1].memo))
       /\ (today' = 11016) =>
             events'[1].memo = <<"2", "9", "-", "0", "2", "-", "2", "0", "0", "0">>
       /\ (today' = 47541) =>
             events'[1].memo = <<"0", "1", "-", "0", "3", "-", "2", "1", "0", "0">>]_vars

\* Day 789 was rendered as 29-02-1972, the first leap day after the epoch.
C40_Witness ==
    /\ today = 789
    /\ events = Rendered(789)
    /\ events[1].memo = <<"2", "9", "-", "0", "2", "-", "1", "9", "7", "2">>

====
